---- MODULE Spec2Model ----
(***************************************************************************)
(* A model of the token bucket of src/src/lib.rs (crate tokenbucket).      *)
(*                                                                         *)
(* Units.  The clock (SystemTime) is finer than a millisecond: a time is   *)
(* a whole number of ticks, TicksPerMs ticks to the millisecond.  The      *)
(* rate r is in tokens per second.  Token amounts (b, tokens, count) are   *)
(* held in units of 1/MsPerSec token, so that the replenishment term       *)
(* (r * duration_ms) / 1000.0 of the code is the whole number              *)
(* r * duration_ms of these units and the arithmetic is exact.  Every      *)
(* amount the model reaches is a multiple of half a token, which an f64    *)
(* holds exactly, so the model and the code agree on these inputs.         *)
(*                                                                         *)
(* A clock reading is an input of the call that makes it: SystemTime is    *)
(* not monotonic, so a reading may be earlier than an earlier one.         *)
(***************************************************************************)
EXTENDS Integers, FiniteSets, Sequences, TLC

\* ---------------------------------------------------------------- sizes
\* Milliseconds per second: the 1000.0 of acquire (lib.rs:151, 160, 163).
MsPerSec == 1000
\* Clock ticks per millisecond (the clock's resolution below as_millis).
TicksPerMs == 2
\* The latest clock reading, in ticks.
MaxTime == 8
\* The latest construction time, in ticks.
MaxStart == 1
\* The number of calling threads of SpecThreads.
NThreads == 2

Times == 0..MaxTime
\* r: tokens per second.
Rates == {500, 1500}
\* b: 1 or 2 tokens.
Capacities == {MsPerSec, 2 * MsPerSec}
\* count: -1, 0, 1, 2, 3 tokens.
Counts == {-MsPerSec, 0, MsPerSec, 2 * MsPerSec, 3 * MsPerSec}

VARIABLES
    r,        \* TokenBucket.r
    b,        \* TokenBucket.b
    tokens,   \* TokenBucket.tokens
    last,     \* TokenBucket.last
    now,      \* the clock value read by the most recent new / acquire
    count,    \* the argument of the most recent acquire
    result,   \* how the most recent acquire ended: "Ok", "Err", "Panic"; "New" before any
    rate,     \* the f64 carried by that result, as a fraction num / den
    \* History of the calls, read by the properties only:
    created,  \* the clock value read by new
    prev,     \* how the acquire before the most recent one ended
    regular,  \* every acquire so far had count > 0 and a clock reading not before the one before
    granted,  \* the sum of the counts of the admitted calls (kept while regular, else 0)
    admittedAt, \* the clock value read by the most recent admitted call, created if none
    \* Several threads calling acquire on one bucket (SpecThreads):
    pc,       \* each thread's place in acquire
    loc,      \* each thread's locals: count, now, duration_ms, allowed, and its result
    holder,   \* the thread holding the exclusive borrow (&mut self) of the bucket, 0 if none
    entry     \* tokens and last as they were when the holder took the borrow

calls == <<now, count, result, rate, created, prev, regular, granted, admittedAt>>
threads == <<pc, loc, holder, entry>>
vars == <<r, b, tokens, last, calls, threads>>

Threads == 1..NThreads

\* ------------------------------------------------------- pure operators
Min(x, y) == IF x <= y THEN x ELSE y

\* Mutant of ClockWentBackwards: an earlier clock reading is let through.
ClockNeverBackwards(t, lst) == FALSE

\* now.duration_since(self.last) is Err when now is earlier than last.
ClockWentBackwards(t, lst) == t < lst

\* Mutant of DurationMs: the milliseconds rounded up instead of truncated.
DurationMsRoundedUp(t, lst) == (t - lst + TicksPerMs - 1) \div TicksPerMs

\* now.duration_since(self.last).as_millis(): whole milliseconds, truncated.
DurationMs(t, lst) == (t - lst) \div TicksPerMs

\* Mutant of Replenish: the sum is not clamped to the capacity.
ReplenishUnclamped(tok, rt, cap, dms) == tok + rt * dms

\* self.b.min(self.tokens + (self.r * duration_ms as f64) / 1000.0)
Replenish(tok, rt, cap, dms) == Min(cap, tok + rt * dms)

\* Mutant of Allowed: the request is tested against the capacity, not the tokens.
AllowedByCapacity(tok, cnt) == b >= cnt

\* Mutant of Allowed: the test is strict.
AllowedStrict(tok, cnt) == tok > cnt

\* let allowed = self.tokens >= count;
Allowed(tok, cnt) == tok >= cnt

\* (1f64 / duration_ms as f64) * 1000.0; den = 0 is the f64 +infinity.
RateOf(dms) == [num |-> MsPerSec, den |-> dms]

\* The value of rate before any call has returned one.
NoRate == [num |-> 0, den |-> 1]

\* A thread's locals outside a call, and the snapshot when nobody holds the bucket.
NoLocals == [count |-> 0, now |-> 0, dms |-> 0, allowed |-> FALSE, result |-> "None", rate |-> NoRate]
NoEntry == [tokens |-> 0, last |-> 0]

\* ------------------------------------------------------------- actions
\* The history of a call acquire(cnt) reading the clock value t, admitted or not.
Record(cnt, t, admitted) ==
    /\ now' = t
    /\ count' = cnt
    /\ prev' = result
    /\ regular' = (regular /\ cnt > 0 /\ t >= now)
    /\ granted' = IF regular' THEN (IF admitted THEN granted + cnt ELSE granted) ELSE 0
    /\ admittedAt' = IF admitted THEN t ELSE admittedAt
    /\ UNCHANGED created

\* Mutant of New: the bucket starts empty.
NewEmpty(rt, cap, c) ==
    /\ r = rt
    /\ b = cap
    /\ tokens = 0
    /\ last = c
    /\ now = c
    /\ count = 0
    /\ result = "New"
    /\ rate = NoRate
    /\ created = c
    /\ prev = "New"
    /\ regular = TRUE
    /\ granted = 0
    /\ admittedAt = c
    /\ pc = [t \in Threads |-> "idle"]
    /\ loc = [t \in Threads |-> NoLocals]
    /\ holder = 0
    /\ entry = NoEntry

\* TokenBucket::new(r, b), the clock reading c.
New(rt, cap, c) ==
    /\ r = rt
    /\ b = cap
    /\ tokens = cap
    /\ last = c
    /\ now = c
    /\ count = 0
    /\ result = "New"
    /\ rate = NoRate
    /\ created = c
    /\ prev = "New"
    /\ regular = TRUE
    /\ granted = 0
    /\ admittedAt = c
    /\ pc = [t \in Threads |-> "idle"]
    /\ loc = [t \in Threads |-> NoLocals]
    /\ holder = 0
    /\ entry = NoEntry

Init == \E rt \in Rates, cap \in Capacities, c \in 0..MaxStart : New(rt, cap, c)

\* acquire(cnt) with the clock reading t: expect() panics before any write.
\* The bucket is left as it was, and a caller that catches the unwind may
\* call again.
AcquirePanic(cnt, t) ==
    /\ ClockWentBackwards(t, last)
    /\ Record(cnt, t, FALSE)
    /\ result' = "Panic"
    /\ rate' = NoRate
    /\ UNCHANGED <<r, b, tokens, last, threads>>

\* Mutant of AcquireOk: the count is taken before the clamp to the capacity.
AcquireOkDeductFirst(cnt, t) ==
    /\ ~ClockWentBackwards(t, last)
    /\ LET dms == DurationMs(t, last)
           tok == Replenish(tokens, r, b, dms)
       IN  /\ Allowed(tok, cnt)
           /\ tokens' = Min(b, tokens + r * dms - cnt)
           /\ last' = t
           /\ rate' = RateOf(dms)
    /\ Record(cnt, t, TRUE)
    /\ result' = "Ok"
    /\ UNCHANGED <<r, b, threads>>

\* acquire(cnt) with the clock reading t, the Ok arm.
AcquireOk(cnt, t) ==
    /\ ~ClockWentBackwards(t, last)
    /\ LET dms == DurationMs(t, last)
           tok == Replenish(tokens, r, b, dms)
       IN  /\ Allowed(tok, cnt)
           /\ tokens' = tok - cnt
           /\ last' = t
           /\ rate' = RateOf(dms)
    /\ Record(cnt, t, TRUE)
    /\ result' = "Ok"
    /\ UNCHANGED <<r, b, threads>>

\* Mutant of AcquireErr: a denied call leaves tokens as they were.
AcquireErrNoCommit(cnt, t) ==
    /\ ~ClockWentBackwards(t, last)
    /\ LET dms == DurationMs(t, last)
           tok == Replenish(tokens, r, b, dms)
       IN  /\ ~Allowed(tok, cnt)
           /\ rate' = RateOf(dms)
    /\ Record(cnt, t, FALSE)
    /\ result' = "Err"
    /\ UNCHANGED <<r, b, tokens, last, threads>>

\* Mutant of AcquireErr: a denied call advances last too.
AcquireErrAdvancesLast(cnt, t) ==
    /\ ~ClockWentBackwards(t, last)
    /\ LET dms == DurationMs(t, last)
           tok == Replenish(tokens, r, b, dms)
       IN  /\ ~Allowed(tok, cnt)
           /\ tokens' = tok
           /\ rate' = RateOf(dms)
    /\ last' = t
    /\ Record(cnt, t, FALSE)
    /\ result' = "Err"
    /\ UNCHANGED <<r, b, threads>>

\* acquire(cnt) with the clock reading t, the Err arm.
AcquireErr(cnt, t) ==
    /\ ~ClockWentBackwards(t, last)
    /\ LET dms == DurationMs(t, last)
           tok == Replenish(tokens, r, b, dms)
       IN  /\ ~Allowed(tok, cnt)
           /\ tokens' = tok
           /\ rate' = RateOf(dms)
    /\ Record(cnt, t, FALSE)
    /\ result' = "Err"
    /\ UNCHANGED <<r, b, last, threads>>

Acquire(cnt, t) == AcquirePanic(cnt, t) \/ AcquireOk(cnt, t) \/ AcquireErr(cnt, t)

Next == \E cnt \in Counts, t \in Times : Acquire(cnt, t)

Spec == Init /\ [][Next]_vars

\* ------------------------------------------------------------- threads
\* Mutant of Exclusive: acquire takes a shared reference, any thread may enter.
Shared(t) == TRUE

\* acquire takes &mut self (lib.rs:143): a thread can be inside acquire only
\* while it holds the one exclusive borrow of the bucket.
Exclusive(t) == holder = 0

\* Thread t sets out to call acquire and waits for the bucket.
T_Call(t) ==
    /\ pc[t] = "idle"
    /\ pc' = [pc EXCEPT ![t] = "wait"]
    /\ UNCHANGED <<r, b, tokens, last, calls, loc, holder, entry>>

\* Thread t enters acquire(cnt).
T_Enter(t, cnt) ==
    /\ pc[t] = "wait"
    /\ Exclusive(t)
    /\ holder' = t
    /\ entry' = [tokens |-> tokens, last |-> last]
    /\ loc' = [loc EXCEPT ![t] = [NoLocals EXCEPT !.count = cnt]]
    /\ pc' = [pc EXCEPT ![t] = "now"]
    /\ UNCHANGED <<r, b, tokens, last, calls>>

\* let now = SystemTime::now();
T_Now(t, c) ==
    /\ pc[t] = "now"
    /\ loc' = [loc EXCEPT ![t].now = c]
    /\ pc' = [pc EXCEPT ![t] = "duration"]
    /\ UNCHANGED <<r, b, tokens, last, calls, holder, entry>>

\* let duration_ms = now.duration_since(self.last).expect(..).as_millis();
T_Duration(t) ==
    /\ pc[t] = "duration"
    /\ IF ClockWentBackwards(loc[t].now, last)
         THEN /\ loc' = [loc EXCEPT ![t].result = "Panic"]
              /\ pc' = [pc EXCEPT ![t] = "return"]
         ELSE /\ loc' = [loc EXCEPT ![t].dms = DurationMs(loc[t].now, last)]
              /\ pc' = [pc EXCEPT ![t] = "replenish"]
    /\ UNCHANGED <<r, b, tokens, last, calls, holder, entry>>

\* self.tokens = self.b.min(self.tokens + (self.r * duration_ms as f64) / 1000.0);
T_Replenish(t) ==
    /\ pc[t] = "replenish"
    /\ tokens' = Replenish(tokens, r, b, loc[t].dms)
    /\ pc' = [pc EXCEPT ![t] = "test"]
    /\ UNCHANGED <<r, b, last, calls, loc, holder, entry>>

\* let allowed = self.tokens >= count;
T_Test(t) ==
    /\ pc[t] = "test"
    /\ loc' = [loc EXCEPT ![t].allowed = Allowed(tokens, loc[t].count)]
    /\ pc' = [pc EXCEPT ![t] = "deduct"]
    /\ UNCHANGED <<r, b, tokens, last, calls, holder, entry>>

\* if allowed { self.tokens -= count; self.last = now; Ok(rate) } else { Err(rate) }
T_Deduct(t) ==
    /\ pc[t] = "deduct"
    /\ IF loc[t].allowed
         THEN /\ tokens' = tokens - loc[t].count
              /\ last' = loc[t].now
              /\ loc' = [loc EXCEPT ![t].result = "Ok", ![t].rate = RateOf(loc[t].dms)]
         ELSE /\ loc' = [loc EXCEPT ![t].result = "Err", ![t].rate = RateOf(loc[t].dms)]
              /\ UNCHANGED <<tokens, last>>
    /\ pc' = [pc EXCEPT ![t] = "return"]
    /\ UNCHANGED <<r, b, calls, holder, entry>>

\* acquire returns (or unwinds): the borrow ends.
T_Return(t) ==
    /\ pc[t] = "return"
    /\ holder' = 0
    /\ entry' = NoEntry
    /\ pc' = [pc EXCEPT ![t] = "idle"]
    /\ loc' = [loc EXCEPT ![t] = NoLocals]
    /\ UNCHANGED <<r, b, tokens, last, calls>>

NextThreads ==
    \E t \in Threads :
        \/ T_Call(t)
        \/ \E cnt \in Counts : T_Enter(t, cnt)
        \/ \E c \in Times : T_Now(t, c)
        \/ T_Duration(t)
        \/ T_Replenish(t)
        \/ T_Test(t)
        \/ T_Deduct(t)
        \/ T_Return(t)

SpecThreads == Init /\ [][NextThreads]_vars

\* ------------------------------------------------------------ properties
\* A step of the bucket that is a call of acquire returning a result.
Returned == Next /\ result' \in {"Ok", "Err"}

\* C1 (as claimed): over calls with count > 0 at non-decreasing clock times,
\* the sum of the admitted counts never exceeds
\* capacity + rate * (time of the latest call - construction time).
\* (granted and b are in 1/MsPerSec token and r * ticks / TicksPerMs too.)
C1_RateLimitBound ==
    regular => granted * TicksPerMs <= b * TicksPerMs + r * (now - created)

\* C2 (as claimed): after new and after every acquire, with any count passed
\* (zero and negative included), tokens <= capacity.
C2_CapacityCeiling == tokens <= b

\* C3: after new and after every acquire of any sequence, tokens >= 0.
C3_NonNegative == tokens >= 0

\* C3 witness: an admitted call for a positive count has emptied the bucket.
C3_Witness == result = "Ok" /\ count > 0 /\ tokens = 0 /\ prev = "Err"

\* C4: a call acquire(count) with count > capacity is never admitted: whenever
\* it returns, in any reachable state, it returns Err.
C4_OverdraftRejected == count > b => result # "Ok"

\* C4 witness: a request above capacity was denied on a bucket that had been
\* left to refill for at least capacity / rate after an admitted call.
C4_Witness ==
    /\ result = "Err"
    /\ count > b
    /\ tokens = b
    /\ last > created
    /\ r * (now - last) >= b * TicksPerMs

\* C5: new leaves tokens = capacity, and the first acquire(count) with
\* count <= capacity, made any time >= 0 after construction, returns Ok.
C5_InitialFullness ==
    [][result = "New" =>
        /\ tokens = b
        /\ last = now
        /\ (Next /\ now' >= now /\ count' <= b) => result' = "Ok"]_vars

\* C5 witness: the first call took the whole capacity some time after new.
C5_Witness ==
    /\ prev = "New"
    /\ result = "Ok"
    /\ count = b
    /\ now > created
    /\ tokens = 0

\* C6 (as claimed): a call acquire(count) with 0 < count <= capacity made at
\* least capacity / rate seconds after the previous call (or construction)
\* returns Ok.  Stated for calls that return, so that a refutation does not
\* rest on the panic of a clock read before last.
C6_FullRefillAfterWait ==
    [][(/\ Returned
        /\ 0 < count'
        /\ count' <= b
        /\ r * (now' - now) >= b * TicksPerMs) => result' = "Ok"]_vars

\* C7: after an admitted call at time t that left x tokens, the next call
\* acquire(count) at time t + d, d >= 0, with x + rate * d < count returns Err.
C7_RateLimitedAfterAdmission ==
    [][(/\ result = "Ok"
        /\ Next
        /\ now' >= now
        /\ tokens * TicksPerMs + r * (now' - now) < count' * TicksPerMs)
       => result' = "Err"]_vars

\* C7 witness: straight after an admission, a request within capacity was
\* denied although some time had passed and some tokens had come back.
C7_Witness ==
    /\ prev = "Ok"
    /\ result = "Err"
    /\ 0 < count
    /\ count <= b
    /\ now > last
    /\ 0 < tokens

\* C9 (as claimed): a call whose clock reading is earlier than last does not
\* panic; it takes the elapsed time as zero, replenishes nothing, and returns
\* Ok or Err by the admission test.
C9_BackwardsClockTolerated ==
    [][(Next /\ now' < last) =>
        /\ result' \in {"Ok", "Err"}
        /\ result' = (IF Min(b, tokens) >= count' THEN "Ok" ELSE "Err")
        /\ tokens' = (IF Min(b, tokens) >= count'
                        THEN Min(b, tokens) - count' ELSE Min(b, tokens))]_vars

\* C10 (as claimed): the value carried by the result, Ok or Err, is
\* 1 / (seconds since the previous acquire call, or since construction),
\* whether that call was admitted or denied.  Stated for calls a whole number
\* of milliseconds, and at least one, after the previous call, which itself
\* returned (or was new), so that a refutation rests neither on the
\* truncation to milliseconds, nor on a division by zero, nor on a panic.
C10_ReportedRate ==
    [][(/\ Returned
        /\ result # "Panic"
        /\ now' > now
        /\ (now' - now) % TicksPerMs = 0)
       => rate'.num * (now' - now) = rate'.den * MsPerSec * TicksPerMs]_vars

\* The threads inside acquire (between entering and returning).
Inside == {t \in Threads : pc[t] \notin {"idle", "wait"}}

\* What one call acquire(cnt) reading the clock value c does, run alone, to a
\* bucket holding tok and lst: the tokens, last and result it leaves.
Serial(tok, lst, cnt, c) ==
    IF ClockWentBackwards(c, lst)
      THEN [tokens |-> tok, last |-> lst, result |-> "Panic"]
      ELSE LET filled == Replenish(tok, r, b, DurationMs(c, lst))
           IN  IF Allowed(filled, cnt)
                 THEN [tokens |-> filled - cnt, last |-> c, result |-> "Ok"]
                 ELSE [tokens |-> filled, last |-> lst, result |-> "Err"]

\* C8: at most one thread is inside acquire at a time, and a call that is
\* about to return leaves tokens and last, and gets the result, that the call
\* run alone on the bucket as it found it would: the calls take effect in the
\* serial order in which they entered.
C8_MutualExclusion ==
    /\ Cardinality(Inside) <= 1
    /\ \A t \in Threads :
         pc[t] = "return" =>
           [tokens |-> tokens, last |-> last, result |-> loc[t].result]
             = Serial(entry.tokens, entry.last, loc[t].count, loc[t].now)

\* C8 witness: a thread is about to return Ok from a call that took tokens
\* from a bucket another call had already drawn on, while another thread
\* waits to enter.
C8_Witness ==
    \E t, u \in Threads :
        /\ t # u
        /\ pc[t] = "return"
        /\ loc[t].result = "Ok"
        /\ loc[t].count > 0
        /\ entry.last > created
        /\ tokens < entry.tokens
        /\ pc[u] = "wait"

\* The tokens the admission test of the call that has just returned saw:
\* what it left, with the count it took put back.
Tested == IF result = "Ok" THEN tokens + count ELSE tokens

\* C11 (as claimed): for two consecutive calls dt apart, the tokens the
\* admission test of the second sees are
\* min(capacity, tokens after the first + rate * dt): the time before the
\* first call is not credited again.  Stated for a first call that returned
\* (or new) and a second call a whole number of milliseconds later, so that
\* a refutation rests neither on a panic nor on the truncation to
\* milliseconds.
C11_ReplenishmentMonotone ==
    [][(/\ Returned
        /\ result # "Panic"
        /\ now' >= now
        /\ (now' - now) % TicksPerMs = 0)
       => Tested' = Min(b, tokens + r * ((now' - now) \div TicksPerMs))]_vars

\* The whole milliseconds between last and the clock value the call that is
\* being made reads: the elapsed time the call measures.
Elapsed == (now' - last) \div TicksPerMs

\* C12: when acquire(count) returns Ok, tokens after the call are
\* min(capacity, tokens before + rate * elapsed) - count, elapsed being the
\* time since last as the call measures it, and last is the clock value the
\* call read.
C12_ConservationOnAdmission ==
    [][(Next /\ result' = "Ok") =>
        /\ tokens' = Min(b, tokens + r * Elapsed) - count'
        /\ last' = now']_vars

\* C12 witness: an admitted call for a positive count, made after a wait
\* that refilled the bucket to the clamp, left capacity - count.
C12_Witness ==
    /\ result = "Ok"
    /\ prev = "Ok"
    /\ count > 0
    /\ count < b
    /\ tokens = b - count
    /\ last = now
    /\ now > created

\* C13: a call acquire(count) whose clock reading is not before last returns
\* Ok if min(capacity, tokens before + rate * elapsed) >= count and Err
\* otherwise, elapsed being the time since last as the call measures it.
C13_AdmissionTest ==
    [][(Next /\ now' >= last) =>
        /\ result' \in {"Ok", "Err"}
        /\ result' = "Ok" <=> Min(b, tokens + r * Elapsed) >= count']_vars

\* C13 witness: a call was admitted on equality, taking all the tokens a
\* wait after a denied call had brought back.
C13_Witness ==
    /\ result = "Ok"
    /\ prev = "Err"
    /\ count = b
    /\ tokens = 0
    /\ now > created

\* C14: when acquire(count) returns Err, count is not deducted and tokens
\* after the call are min(capacity, tokens before + rate * elapsed), elapsed
\* being the time since last as the call measures it; rate and capacity are
\* unchanged.
C14_DeniedCommitsReplenishment ==
    [][(Next /\ result' = "Err") =>
        /\ tokens' = Min(b, tokens + r * Elapsed)
        /\ r' = r
        /\ b' = b]_vars

\* C14 witness: two calls in a row were denied and the bucket holds a
\* partial refill, less than the count asked for.
C14_Witness ==
    /\ result = "Err"
    /\ prev = "Err"
    /\ 0 < tokens
    /\ tokens < count
    /\ count <= b
    /\ now > last

\* C15: in every reachable state last is the clock value read by the most
\* recent admitted call, or the construction time if no call has been
\* admitted; so a denied call, and one that panics, leaves last as it was.
C15_MeaningOfLast == last = admittedAt

\* C15 witness: a call was denied some time after an admitted one, and last
\* still holds the time of the admitted call.
C15_Witness ==
    /\ result = "Err"
    /\ prev = "Ok"
    /\ last > created
    /\ now > last
    /\ last = admittedAt

\* C16 (as claimed): the amount a call adds before clamping is
\* rate * (now - last) with the elapsed time taken in full, fractions of a
\* millisecond included, so that consecutive admitted calls on a bucket that
\* stays below capacity are credited rate * (time between them) in all.
\* Stated for an admitted call that follows an admitted call (or new), where
\* last is the time of the call before, and the full credit fits the bucket.
C16_ExactElapsed ==
    [][(/\ result \in {"Ok", "New"}
        /\ Next
        /\ result' = "Ok"
        /\ now' >= now
        /\ tokens * TicksPerMs + r * (now' - now) <= b * TicksPerMs)
       => (Tested' - tokens) * TicksPerMs = r * (now' - now)]_vars

\* C17 (as claimed): the rate a call returns is never the outcome of
\* 1 / elapsed with elapsed = 0 (held in rate as the denominator 0, the f64
\* infinity).
C17_ZeroElapsedRate == result \in {"Ok", "Err"} => rate.den # 0

\* C18 (as claimed): after acquire(count) returned Err at clock time t,
\* another acquire(count) with the same count at the same clock time t
\* returns Err too.
C18_DenialStable ==
    [][(/\ result = "Err"
        /\ Next
        /\ now' = now
        /\ count' = count) => result' = "Err"]_vars

\* C19: over any calls with any clock readings, backwards ones included,
\* last never decreases, and when a call returns a result last is not after
\* the clock value that call read.
C19_MonotoneTimestamp ==
    [][Next =>
        /\ last' >= last
        /\ result' \in {"Ok", "Err"} => last' <= now']_vars

\* C19 witness: a call read a clock value before last and panicked, and the
\* next call, at a later time than last, was admitted and moved last forward.
C19_Witness ==
    /\ prev = "Panic"
    /\ result = "Ok"
    /\ last = now
    /\ now > created
    /\ count > 0

====
